---- MODULE Spec2Model ----
(***************************************************************************)
(* Model of the route optimisation engine of ecormart-beta                 *)
(* (src/route_optimizer.py, class RouteOptimizer).                         *)
(*                                                                         *)
(* Units.  Coordinates are points of a small integer grid; the depot is    *)
(* the grid origin.  Distances are integers in hundredths of a kilometre,  *)
(* times are minutes, fuel savings and scores are tenths of a percent.     *)
(* The collection points are Python dicts: they live in a heap indexed by  *)
(* object reference, and a list of points is a sequence of references, so  *)
(* that the same object may occur twice in a list and a write through one  *)
(* reference is seen through every other.                                  *)
(*                                                                         *)
(* The module also models the gamification system                          *)
(* (src/gamification.py, class GamificationSystem, and the notifications   *)
(* it sends through src/notifications.py) over the tables of its SQLite    *)
(* database.  A table without a key is a bag of rows.                      *)
(***************************************************************************)
EXTENDS Integers, Sequences, FiniteSets, Bags, TLC

\* ------------------------------------------------------------------ bounds
NumPoints == 3      \* number of point objects the caller holds
NumSites  == 4      \* number of locations a point may lie at
MaxLen    == 3      \* longest list passed to an operation
MaxTrucks == 2      \* largest num_trucks passed to the fleet operation
MaxDisposals   == 4 \* most process_waste_disposal calls in a behaviour
MaxRedemptions == 2 \* most redemptions recorded in a behaviour
GridStep  == 144    \* length of one grid step, in hundredths of a km

\* ------------------------------------------------- constants of the source
DefaultSpeed       == 25     \* self.avg_speed_kmh
DefaultServiceTime == 8      \* self.service_time_minutes
FactorLo           == 120    \* random.uniform(1.2, 1.3), in hundredths
FactorHi           == 130
EfficiencyBase     == 700    \* 70 + fuel_savings, in tenths
EfficiencyCap      == 950    \* min(95, ...), in tenths
FuelPerKm          == 35     \* fuel_consumption_per_km = 0.35, in hundredths
Co2PerLiter        == 27     \* co2_per_liter = 2.7, in tenths
EnvironmentalBase  == 500    \* 50 + fuel_savings_percent * 2, in tenths
EnvironmentalCap   == 1000   \* min(100, ...), in tenths
NumAlternatives    == 2      \* num_alternatives of get_alternative_routes

Refs    == 1..NumPoints
\* The locations: the grid points (0,0), (0,1), (1,0), (1,1), (2,0), ...
Coords  == {<<(i - 1) \div 2, (i - 1) % 2>> : i \in 1..NumSites}
Depot   == <<0, 0>>
Factors == {FactorLo, FactorHi}
Speeds  == {DefaultSpeed, 0, 0 - DefaultSpeed}
TruckCounts == (0 - 1)..MaxTrucks

\* Lists of references of length 0..MaxLen (the argument lists).
BinLists == UNION {[1..n -> Refs] : n \in 0..MaxLen}

VARIABLES
    base_location,          \* self.base_location
    avg_speed_kmh,          \* self.avg_speed_kmh
    service_time_minutes,   \* self.service_time_minutes
    points,                 \* the list of points the caller holds
    heap,                   \* the point objects (dicts), by reference
    call,                   \* the last operation invoked on points
    result,                 \* what the operation returned or raised
    \* the tables of the database that GamificationSystem reads and writes
    \* (src/gamification.py, src/notifications.py, src/database.py)
    users,                  \* users: user_id -> points, level
    rewards,                \* rewards: id -> cost, available
    user_rewards,           \* user_rewards: a bag of rows
    user_activities,        \* user_activities: a bag of rows
    user_achievements,      \* user_achievements: a bag of rows
    notifications,          \* notifications: a bag of rows
    user_challenge_progress,\* (user_id, challenge_id) -> progress, completed
    today                   \* where the clock stands against the challenges

database == <<users, rewards, user_rewards, user_activities,
              user_achievements, notifications, user_challenge_progress,
              today>>

vars == <<base_location, avg_speed_kmh, service_time_minutes,
          points, heap, call, result, database>>

\* ------------------------------------------------------------ arithmetic
Abs(x) == IF x < 0 THEN 0 - x ELSE x

Min(a, b) == IF a <= b THEN a ELSE b

\* The element of a one-element set; Only({e(x) : x \in {v}}) is e(v) with v
\* evaluated once.
Only(S) == CHOOSE x \in S : TRUE

\* Floor of the square root, by bisection of lo..hi.
RECURSIVE IsqrtBetween(_, _, _)
IsqrtBetween(n, lo, hi) ==
    IF lo >= hi THEN lo
    ELSE LET mid == (lo + hi + 1) \div 2
         IN  IF mid * mid <= n THEN IsqrtBetween(n, mid, hi)
             ELSE IsqrtBetween(n, lo, mid - 1)

\* No distance between two locations exceeds NumSites * GridStep.
Isqrt(n) == IsqrtBetween(n, 0, NumSites * GridStep)

\* round(num / den) of Python 3: nearest integer, ties to the even one.
RoundHalfEven(num, den) ==
    LET n == IF den < 0 THEN 0 - num ELSE num
        d == Abs(den)
        q == n \div d
        r == n - q * d
    IN  IF 2 * r < d THEN q
        ELSE IF 2 * r > d THEN q + 1
        ELSE IF q % 2 = 0 THEN q ELSE q + 1

\* round(x, 1) of a distance x held in hundredths: a multiple of 10.
Round1(x) == 10 * RoundHalfEven(x, 10)

\* ------------------------------------------------------------ the points
\* A point as the data layer hands it over: a dict with an identifier and
\* coordinates and none of the keys calculate_optimal_route adds (its other
\* keys, name, fill_level, ..., are neither read nor written here).  keys is
\* the set of keys the dict holds; a field whose key is absent is 0.
FreshPoint(r, c) ==
    [id |-> r, coordinates |-> c, keys |-> {"id", "coordinates"},
     estimated_time |-> 0, sequence |-> 0,
     arrival_time |-> [num |-> 0, den |-> 1]]

FreshHeaps == {[r \in Refs |-> FreshPoint(r, cs[r])] : cs \in [Refs -> Coords]}

\* ------------------------------------------------------------ GeoDistance
\* The longitude term taken without its square.
Haversine_NoSquare(coord1, coord2) ==
    LET dlat == coord2[1] - coord1[1]
        dlon == coord2[2] - coord1[2]
        a    == dlat * dlat + dlon
    IN  Isqrt(a * GridStep * GridStep)

\* The haversine distance on the grid: the squared half-chord term a is
\* the sum of the latitude and longitude terms, the distance grows with
\* its square root; here in its small-angle form, rounded down to 0.01 km.
Haversine(coord1, coord2) ==
    LET dlat == coord2[1] - coord1[1]
        dlon == coord2[2] - coord1[2]
        a    == dlat * dlat + dlon * dlon
    IN  Isqrt(a * GridStep * GridStep)

DistanceTable == [c1 \in Coords |-> [c2 \in Coords |-> Haversine(c1, c2)]]

calculate_distance(coord1, coord2) == DistanceTable[coord1][coord2]

\* --------------------------------------------------------- RouteSequencer
\* The first unvisited element taken, whatever its distance.
NearestIndex_First(h, current_location, unvisited_bins) == 1

\* Of several elements at the least distance the last one taken.
NearestIndex_LastTie(h, current_location, unvisited_bins) ==
    LET key(i) == calculate_distance(current_location,
                                     h[unvisited_bins[i]].coordinates)
    IN  CHOOSE i \in 1..Len(unvisited_bins) :
            /\ \A j \in 1..Len(unvisited_bins) : key(i) <= key(j)
            /\ \A j \in (i + 1)..Len(unvisited_bins) : key(j) > key(i)

\* min(unvisited_bins, key = distance from current_location): the index of
\* the first element whose key no other element undercuts.
NearestIndex(h, current_location, unvisited_bins) ==
    LET key(i) == calculate_distance(current_location,
                                     h[unvisited_bins[i]].coordinates)
    IN  CHOOSE i \in 1..Len(unvisited_bins) :
            /\ \A j \in 1..Len(unvisited_bins) : key(i) <= key(j)
            /\ \A j \in 1..(i - 1) : key(j) > key(i)

\* Mutant of ListRemove: pop(0) in place of remove(nearest_bin).
ListRemove_Pop(h, list, x) == Tail(list)

\* Every element at the place of x dropped at once.
ListRemove_SamePlace(h, list, x) ==
    SelectSeq(list, LAMBDA y : h[y].coordinates # h[x].coordinates)

\* list.remove(x): drops the first element equal to x; dicts compare by
\* value, so the first element whose dict equals the dict of x.
ListRemove(h, list, x) ==
    LET i == CHOOSE k \in 1..Len(list) :
                 /\ h[list[k]] = h[x]
                 /\ \A j \in 1..(k - 1) : h[list[j]] # h[x]
    IN  SubSeq(list, 1, i - 1) \o SubSeq(list, i + 1, Len(list))

\* The while loop of nearest_neighbor_algorithm.
RECURSIVE NearestNeighborLoop(_, _, _, _)
NearestNeighborLoop(h, current_location, unvisited_bins, route) ==
    IF unvisited_bins = <<>> THEN route
    ELSE LET nearest_bin ==
                 unvisited_bins[NearestIndex(h, current_location, unvisited_bins)]
         IN  NearestNeighborLoop(h,
                                 h[nearest_bin].coordinates,
                                 ListRemove(h, unvisited_bins, nearest_bin),
                                 Append(route, nearest_bin))

nearest_neighbor_algorithm(h, bins) ==
    IF bins = <<>> THEN <<>>
    ELSE NearestNeighborLoop(h, base_location, bins, <<>>)

\* -------------------------------------------------- RouteMetricsCalculator
\* The dict returned for an empty list (by calculate_route_metrics and by
\* calculate_optimal_route alike): five keys, no travel_time/service_time.
NoKeyPlan ==
    [keys |-> {}, total_distance |-> 0, estimated_time |-> 0,
     fuel_savings |-> 0, coordinates |-> <<>>, stops |-> <<>>,
     travel_time |-> 0, service_time |-> 0, number_of_stops |-> 0,
     route_efficiency_score |-> 0, truck_id |-> 0]

EmptyPlan ==
    [NoKeyPlan EXCEPT !.keys = {"total_distance", "estimated_time",
                                "fuel_savings", "coordinates", "stops"}]

Raised(e) == [status |-> e, plan |-> NoKeyPlan]

Returned(p) == [status |-> "ok", plan |-> p]

\* The for loop over the stops: the sum of the legs walked so far, from
\* current_location through route[i..].
RECURSIVE LegSum(_, _, _, _)
LegSum(h, current_location, route, i) ==
    IF i > Len(route) THEN 0
    ELSE LET bin_coords == h[route[i]].coordinates
         IN  calculate_distance(current_location, bin_coords)
                 + LegSum(h, bin_coords, route, i + 1)

\* The location of the last stop (current_location when the loop ends).
LastLocation(h, route) ==
    IF route = <<>> THEN base_location ELSE h[route[Len(route)]].coordinates

\* The travel time taken from the non-optimized distance.
MetricsOf_TimeFromBaseline(h, route, factor, total_distance) ==
    LET service_time  == Len(route) * service_time_minutes
        \* travel_time = total_distance / avg_speed_kmh * 60, as a fraction
        tt_num        == total_distance * factor * 60
        tt_den        == 100 * 100 * avg_speed_kmh
        \* non_optimized_distance, in ten-thousandths of a km
        non_optimized == total_distance * factor
    IN  IF avg_speed_kmh = 0 THEN Raised("ZeroDivisionError")
        ELSE IF non_optimized = 0 THEN Raised("ZeroDivisionError")
        ELSE Returned(
            [keys |-> {"total_distance", "estimated_time", "fuel_savings",
                       "coordinates", "stops", "travel_time", "service_time"},
             total_distance |-> Round1(total_distance),
             estimated_time |-> RoundHalfEven(tt_num + service_time * tt_den,
                                              tt_den),
             fuel_savings   |-> RoundHalfEven(
                                   (non_optimized - 100 * total_distance) * 1000,
                                   non_optimized),
             coordinates    |-> <<base_location>>
                                  \o [i \in 1..Len(route) |->
                                          h[route[i]].coordinates]
                                  \o <<base_location>>,
             stops          |-> route,
             travel_time    |-> RoundHalfEven(tt_num, tt_den),
             service_time   |-> service_time,
             number_of_stops |-> 0,
             route_efficiency_score |-> 0,
             truck_id       |-> 0])

\* The polyline left open: no way back to the depot at its end.
MetricsOf_OpenPolyline(h, route, factor, total_distance) ==
    LET service_time  == Len(route) * service_time_minutes
        \* travel_time = total_distance / avg_speed_kmh * 60, as a fraction
        tt_num        == total_distance * 60
        tt_den        == 100 * avg_speed_kmh
        \* non_optimized_distance, in ten-thousandths of a km
        non_optimized == total_distance * factor
    IN  IF avg_speed_kmh = 0 THEN Raised("ZeroDivisionError")
        ELSE IF non_optimized = 0 THEN Raised("ZeroDivisionError")
        ELSE Returned(
            [keys |-> {"total_distance", "estimated_time", "fuel_savings",
                       "coordinates", "stops", "travel_time", "service_time"},
             total_distance |-> Round1(total_distance),
             estimated_time |-> RoundHalfEven(tt_num + service_time * tt_den,
                                              tt_den),
             fuel_savings   |-> RoundHalfEven(
                                   (non_optimized - 100 * total_distance) * 1000,
                                   non_optimized),
             coordinates    |-> <<base_location>>
                                  \o [i \in 1..Len(route) |->
                                          h[route[i]].coordinates],
             stops          |-> route,
             travel_time    |-> RoundHalfEven(tt_num, tt_den),
             service_time   |-> service_time,
             number_of_stops |-> 0,
             route_efficiency_score |-> 0,
             truck_id       |-> 0])

\* The total time without the service time.
MetricsOf_TravelOnly(h, route, factor, total_distance) ==
    LET service_time  == Len(route) * service_time_minutes
        \* travel_time = total_distance / avg_speed_kmh * 60, as a fraction
        tt_num        == total_distance * 60
        tt_den        == 100 * avg_speed_kmh
        \* non_optimized_distance, in ten-thousandths of a km
        non_optimized == total_distance * factor
    IN  IF avg_speed_kmh = 0 THEN Raised("ZeroDivisionError")
        ELSE IF non_optimized = 0 THEN Raised("ZeroDivisionError")
        ELSE Returned(
            [keys |-> {"total_distance", "estimated_time", "fuel_savings",
                       "coordinates", "stops", "travel_time", "service_time"},
             total_distance |-> Round1(total_distance),
             estimated_time |-> RoundHalfEven(tt_num, tt_den),
             fuel_savings   |-> RoundHalfEven(
                                   (non_optimized - 100 * total_distance) * 1000,
                                   non_optimized),
             coordinates    |-> <<base_location>>
                                  \o [i \in 1..Len(route) |->
                                          h[route[i]].coordinates]
                                  \o <<base_location>>,
             stops          |-> route,
             travel_time    |-> RoundHalfEven(tt_num, tt_den),
             service_time   |-> service_time,
             number_of_stops |-> 0,
             route_efficiency_score |-> 0,
             truck_id       |-> 0])

\* The saving taken as a share of the optimized distance.
MetricsOf_SavingsOverOptimized(h, route, factor, total_distance) ==
    LET service_time  == Len(route) * service_time_minutes
        \* travel_time = total_distance / avg_speed_kmh * 60, as a fraction
        tt_num        == total_distance * 60
        tt_den        == 100 * avg_speed_kmh
        \* non_optimized_distance, in ten-thousandths of a km
        non_optimized == total_distance * factor
    IN  IF avg_speed_kmh = 0 THEN Raised("ZeroDivisionError")
        ELSE IF non_optimized = 0 THEN Raised("ZeroDivisionError")
        ELSE Returned(
            [keys |-> {"total_distance", "estimated_time", "fuel_savings",
                       "coordinates", "stops", "travel_time", "service_time"},
             total_distance |-> Round1(total_distance),
             estimated_time |-> RoundHalfEven(tt_num + service_time * tt_den,
                                              tt_den),
             fuel_savings   |-> RoundHalfEven(
                                   (non_optimized - 100 * total_distance) * 1000,
                                   100 * total_distance),
             coordinates    |-> <<base_location>>
                                  \o [i \in 1..Len(route) |->
                                          h[route[i]].coordinates]
                                  \o <<base_location>>,
             stops          |-> route,
             travel_time    |-> RoundHalfEven(tt_num, tt_den),
             service_time   |-> service_time,
             number_of_stops |-> 0,
             route_efficiency_score |-> 0,
             truck_id       |-> 0])

\* The dict built from total_distance (lines 77-95); the two divisions
\* raise ZeroDivisionError on a zero divisor.
MetricsOf(h, route, factor, total_distance) ==
    LET service_time  == Len(route) * service_time_minutes
        \* travel_time = total_distance / avg_speed_kmh * 60, as a fraction
        tt_num        == total_distance * 60
        tt_den        == 100 * avg_speed_kmh
        \* non_optimized_distance, in ten-thousandths of a km
        non_optimized == total_distance * factor
    IN  IF avg_speed_kmh = 0 THEN Raised("ZeroDivisionError")
        ELSE IF non_optimized = 0 THEN Raised("ZeroDivisionError")
        ELSE Returned(
            [keys |-> {"total_distance", "estimated_time", "fuel_savings",
                       "coordinates", "stops", "travel_time", "service_time"},
             total_distance |-> Round1(total_distance),
             estimated_time |-> RoundHalfEven(tt_num + service_time * tt_den,
                                              tt_den),
             fuel_savings   |-> RoundHalfEven(
                                   (non_optimized - 100 * total_distance) * 1000,
                                   non_optimized),
             coordinates    |-> <<base_location>>
                                  \o [i \in 1..Len(route) |->
                                          h[route[i]].coordinates]
                                  \o <<base_location>>,
             stops          |-> route,
             travel_time    |-> RoundHalfEven(tt_num, tt_den),
             service_time   |-> service_time,
             number_of_stops |-> 0,
             route_efficiency_score |-> 0,
             truck_id       |-> 0])

\* Mutant of TotalDistance: the leg back to the depot is left out.
TotalDistance_NoReturn(h, route) == LegSum(h, base_location, route, 1)

\* The closed walk depot, stops, depot: the legs of the loop and the return.
TotalDistance(h, route) ==
    LegSum(h, base_location, route, 1)
        + calculate_distance(LastLocation(h, route), base_location)

\* Mutant of calculate_route_metrics: the "if not route" case is missing.
calculate_route_metrics_NoEmptyCase(h, route, factor) ==
    Only({MetricsOf(h, route, factor, total_distance) :
              total_distance \in {TotalDistance(h, route)}})

calculate_route_metrics(h, route, factor) ==
    IF route = <<>> THEN Returned(EmptyPlan)
    ELSE Only({MetricsOf(h, route, factor, total_distance) :
                   total_distance \in {TotalDistance(h, route)}})

\* ------------------------------------------------------ single-route call
\* One pass of "for i, stop in enumerate(route_metrics['stops'])": the
\* stop dict gets the keys estimated_time, sequence and arrival_time.  i is
\* the 0-based index of the source.  arrival_time is kept as its offset from
\* datetime.now() in minutes, the exact fraction num / den of
\* service_time_minutes * i + travel_time * (i / len(stops)).
AnnotateStop(h, stops, travel_time, i) ==
    [h EXCEPT ![stops[i + 1]] =
        [@ EXCEPT !.keys = @ \cup {"estimated_time", "sequence", "arrival_time"},
                  !.estimated_time = service_time_minutes,
                  !.sequence = i + 1,
                  !.arrival_time =
                      [num |-> service_time_minutes * i * Len(stops)
                                 + travel_time * i,
                       den |-> Len(stops)]]]

RECURSIVE AnnotateStops(_, _, _, _)
AnnotateStops(h, stops, travel_time, i) ==
    IF i >= Len(stops) THEN h
    ELSE AnnotateStops(AnnotateStop(h, stops, travel_time, i),
                       stops, travel_time, i + 1)

\* Lines 114-131: the stops annotated, the summary keys added.
RouteSummary(h, bins_for_collection, route_metrics) ==
    IF route_metrics.status # "ok"
    THEN [out |-> route_metrics, heap |-> h]
    ELSE [out |-> Returned(
              [route_metrics.plan EXCEPT
                   !.keys = @ \cup {"route_generated_at", "number_of_stops",
                                    "optimization_algorithm",
                                    "route_efficiency_score"},
                   !.number_of_stops = Len(bins_for_collection),
                   !.route_efficiency_score =
                       Min(EfficiencyCap,
                           EfficiencyBase + route_metrics.plan.fuel_savings)]),
          heap |-> AnnotateStops(h, route_metrics.plan.stops,
                                 route_metrics.plan.travel_time, 0)]

\* calculate_optimal_route: the outcome and the heap it leaves behind.
calculate_optimal_route(h, bins_for_collection, factor) ==
    IF bins_for_collection = <<>>
    THEN [out |-> Returned(EmptyPlan), heap |-> h]
    ELSE Only({RouteSummary(h, bins_for_collection, route_metrics) :
                 route_metrics \in
                   {calculate_route_metrics(
                        h, nearest_neighbor_algorithm(h, bins_for_collection),
                        factor)}})

\* --------------------------------------------------- MultiVehicleAllocator
\* Mutant of TruckBins: the slice of a truck but the last runs one element
\* too far.
TruckBins_OffByOne(bins_for_collection, num_trucks, truck_id) ==
    LET bins_per_truck == Len(bins_for_collection) \div num_trucks
        start_idx      == truck_id * bins_per_truck
    IN  IF truck_id = num_trucks - 1
        THEN SubSeq(bins_for_collection, start_idx + 1,
                    Len(bins_for_collection))
        ELSE SubSeq(bins_for_collection, start_idx + 1,
                    Min(start_idx + bins_per_truck + 1,
                        Len(bins_for_collection)))

\* Mutant of TruckBins: the last truck gets a slice like the others and the
\* remainder is dropped.
TruckBins_NoRemainder(bins_for_collection, num_trucks, truck_id) ==
    LET bins_per_truck == Len(bins_for_collection) \div num_trucks
        start_idx      == truck_id * bins_per_truck
    IN  SubSeq(bins_for_collection, start_idx + 1, start_idx + bins_per_truck)

\* Every truck but the last given at least one point while points last.
TruckBins_AtLeastOne(bins_for_collection, num_trucks, truck_id) ==
    LET n              == Len(bins_for_collection)
        bins_per_truck == IF n \div num_trucks = 0 THEN 1
                          ELSE n \div num_trucks
        start_idx      == Min(n, truck_id * bins_per_truck)
    IN  IF truck_id = num_trucks - 1
        THEN SubSeq(bins_for_collection, start_idx + 1, n)
        ELSE SubSeq(bins_for_collection, start_idx + 1,
                    Min(n, start_idx + bins_per_truck))

\* truck_bins of the truck with 0-based truck_id (Python slices).
TruckBins(bins_for_collection, num_trucks, truck_id) ==
    LET bins_per_truck == Len(bins_for_collection) \div num_trucks
        start_idx      == truck_id * bins_per_truck
    IN  IF truck_id = num_trucks - 1
        THEN SubSeq(bins_for_collection, start_idx + 1,
                    Len(bins_for_collection))
        ELSE SubSeq(bins_for_collection, start_idx + 1,
                    start_idx + bins_per_truck)

\* The loop "for truck_id in range(num_trucks)", from truck_id on:
\* truck_routes so far, the heap so far; an exception of a truck's
\* computation ends the loop and the call.  factors[truck_id + 1] is the
\* random draw of that truck's metrics computation.
\* Mutant of HasBins: the route of a truck is kept whatever its slice.
HasBins_Always(truck_bins) == TRUE

\* "if truck_bins:" - only a truck that got a point gets a route.
HasBins(truck_bins) == truck_bins # <<>>

RECURSIVE TruckLoop(_, _, _, _, _, _)
\* The body of the loop once the truck's route r is computed.
TruckStep(r, bins_for_collection, num_trucks, factors, truck_id, truck_routes) ==
    IF r.out.status # "ok"
    THEN [status |-> r.out.status, plans |-> <<>>, heap |-> r.heap]
    ELSE TruckLoop(r.heap, bins_for_collection, num_trucks, factors,
                   truck_id + 1,
                   Append(truck_routes,
                          [r.out.plan EXCEPT
                               !.keys = @ \cup {"truck_id", "truck_name",
                                                "driver"},
                               !.truck_id = truck_id + 1]))

TruckLoop(h, bins_for_collection, num_trucks, factors, truck_id, truck_routes) ==
    IF truck_id >= num_trucks
    THEN [status |-> "ok", plans |-> truck_routes, heap |-> h]
    ELSE IF ~HasBins(TruckBins(bins_for_collection, num_trucks, truck_id))
    THEN TruckLoop(h, bins_for_collection, num_trucks, factors,
                   truck_id + 1, truck_routes)
    ELSE Only({TruckStep(r, bins_for_collection, num_trucks, factors,
                         truck_id, truck_routes) :
                 r \in {calculate_optimal_route(
                            h,
                            TruckBins(bins_for_collection, num_trucks, truck_id),
                            factors[truck_id + 1])}})

optimize_multi_truck_routes(h, bins_for_collection, num_trucks, factors) ==
    IF bins_for_collection = <<>> \/ num_trucks <= 0
    THEN [status |-> "ok", plans |-> <<>>, heap |-> h]
    ELSE TruckLoop(h, bins_for_collection, num_trucks, factors, 0, <<>>)

\* ---------------------------------------------- GamificationSystem: tables
\* The users inserted by insert_sample_data, with the columns that the
\* gamification code reads.
SampleUsers ==
    [user_id \in {"user_001", "user_002", "user_003", "user_004", "user_005"} |->
        CASE user_id = "user_001" -> [points |-> 1250, level |-> 3]
          [] user_id = "user_002" -> [points |-> 890,  level |-> 2]
          [] user_id = "user_003" -> [points |-> 2100, level |-> 4]
          [] user_id = "user_004" -> [points |-> 450,  level |-> 1]
          [] user_id = "user_005" -> [points |-> 1650, level |-> 3]]

\* The achievements table; the row's place is its id.  No code changes it.
Achievement(requirement_type, requirement_value, points_reward) ==
    [requirement_type  |-> requirement_type,
     requirement_value |-> requirement_value,
     points_reward     |-> points_reward]

achievements ==
    << Achievement("disposal_count",   1,    50),
       Achievement("disposal_count",   50,   500),
       Achievement("recyclable_count", 25,   300),
       Achievement("weekly_streak",    7,    200),
       Achievement("level",            5,    1000),
       Achievement("organic_count",    30,   400),
       Achievement("bin_types_used",   4,    600),
       Achievement("total_points",     1000, 100),
       Achievement("daily_streak",     30,   800),
       Achievement("referrals",        5,    1500) >>

\* The rewards table as populate_initial_data fills it: every reward is
\* available.
RewardCosts == <<200, 300, 400, 500, 600, 800, 1000, 1200, 700, 1500>>

InitialRewards ==
    [id \in 1..Len(RewardCosts) |-> [cost |-> RewardCosts[id], available |-> TRUE]]

\* The weekly_challenges table; the row's place is its id.  Dates are the
\* day of October 2024.
Challenge(target, challenge_type) ==
    [target |-> target, challenge_type |-> challenge_type, active |-> TRUE,
     start_date |-> 7, end_date |-> 13]

weekly_challenges ==
    << Challenge(15, "recyclable"),
       Challenge(10, "organic"),
       Challenge(7,  "daily"),
       Challenge(3,  "variety") >>

\* The date of the calls: a day of the challenges' week, or a later day.
Days == {7, 14}

\* The arguments of the calls: two sample users and a user_id without a row;
\* a bin type with a challenge of its own and the default one; the extremes
\* of random.randint(0, 5); a withdrawn reward, a reward that one of the
\* users can pay for, and an id without a row.
UserIds       == {"user_001", "user_004", "user_999"}
BinTypes      == {"reciclavel", "comum"}
RandomBonuses == {0, 5}
RewardIds     == {2, 5, 99}

\* The database as one value, and the value the variables hold.
Database(us, rw, ur, ua, uach, nt, ucp, td) ==
    [users |-> us, rewards |-> rw, user_rewards |-> ur,
     user_activities |-> ua, user_achievements |-> uach,
     notifications |-> nt, user_challenge_progress |-> ucp, today |-> td]

Current ==
    Database(users, rewards, user_rewards, user_activities,
             user_achievements, notifications, user_challenge_progress, today)

\* The database after create_tables, insert_sample_data and
\* populate_initial_data.
SeededDatabase(td) ==
    Database(SampleUsers, InitialRewards, EmptyBag, EmptyBag, EmptyBag,
             EmptyBag, <<>>, td)

Holds(d) ==
    /\ users = d.users
    /\ rewards = d.rewards
    /\ user_rewards = d.user_rewards
    /\ user_activities = d.user_activities
    /\ user_achievements = d.user_achievements
    /\ notifications = d.notifications
    /\ user_challenge_progress = d.user_challenge_progress
    /\ today = d.today

Store(d) ==
    /\ users' = d.users
    /\ rewards' = d.rewards
    /\ user_rewards' = d.user_rewards
    /\ user_activities' = d.user_activities
    /\ user_achievements' = d.user_achievements
    /\ notifications' = d.notifications
    /\ user_challenge_progress' = d.user_challenge_progress
    /\ today' = d.today

Insert(table, row) == table (+) SetToBag({row})

\* ------------------------------------------ GamificationSystem: operations
\* type_bonuses.get(bin_type, 0)
type_bonuses(bin_type) ==
    CASE bin_type = "reciclavel" -> 5
      [] bin_type = "organico"   -> 3
      [] bin_type = "comum"      -> 0
      [] bin_type = "eletronico" -> 10
      [] OTHER                   -> 0

\* A row of user_activities: the bin type is the metadata of a disposal, the
\* item that of an achievement or of a redemption.
ActivityRow(user_id, activity_type, points_earned, bin_type, item) ==
    [user_id |-> user_id, activity_type |-> activity_type,
     points_earned |-> points_earned, bin_type |-> bin_type, item |-> item]

record_user_activity(d, user_id, activity_type, points_earned, bin_type) ==
    [d EXCEPT !.user_activities =
        Insert(@, ActivityRow(user_id, activity_type, points_earned,
                              bin_type, 0))]

\* send_notification writes through a connection of its own.  While the
\* caller's connection holds an uncommitted write the INSERT fails with
\* "database is locked"; the exception is caught, nothing is stored and
\* False is returned.
send_notification(d, user_id, notification_type, item, locked) ==
    IF locked
    THEN d
    ELSE [d EXCEPT !.notifications =
            Insert(@, [user_id |-> user_id,
                       notification_type |-> notification_type,
                       item |-> item])]

send_points_notification(d, user_id, total_points) ==
    send_notification(d, user_id, "success", total_points, FALSE)

send_achievement_notification(d, user_id, achievement_id, locked) ==
    send_notification(d, user_id, "achievement", achievement_id, locked)

send_reward_notification(d, user_id, reward_id) ==
    send_notification(d, user_id, "info", reward_id, FALSE)

\* The challenges selected by WHERE active = TRUE AND start_date <= today
\* AND end_date >= today.
ActiveChallenges(d) ==
    {id \in 1..Len(weekly_challenges) :
        /\ weekly_challenges[id].active
        /\ weekly_challenges[id].start_date <= d.today
        /\ weekly_challenges[id].end_date >= d.today}

should_increment(challenge_type, bin_type) ==
    \/ challenge_type = "recyclable" /\ bin_type = "reciclavel"
    \/ challenge_type = "organic" /\ bin_type = "organico"
    \/ challenge_type = "daily"
    \/ challenge_type = "variety"

\* INSERT OR IGNORE ... VALUES (?, ?, 0): the row, made if it is missing.
ProgressRow(d, key) ==
    IF key \in DOMAIN d.user_challenge_progress
    THEN d.user_challenge_progress[key]
    ELSE [progress |-> 0, completed |-> FALSE]

UpdateProgress_Unguarded(row, target) ==
    [row EXCEPT !.progress = @ + 1]

\* UPDATE ... SET progress = progress + 1 WHERE ... AND progress < target
UpdateProgress(row, target) ==
    IF row.progress < target THEN [row EXCEPT !.progress = @ + 1] ELSE row

\* if current_progress >= target: UPDATE ... SET completed = TRUE
MarkCompleted(row, target) ==
    IF row.progress >= target THEN [row EXCEPT !.completed = TRUE] ELSE row

update_challenge_progress(d, user_id, bin_type) ==
    LET keys == {<<user_id, id>> : id \in
                    {c \in ActiveChallenges(d) :
                        should_increment(weekly_challenges[c].challenge_type,
                                         bin_type)}}
    IN  [d EXCEPT !.user_challenge_progress =
            [key \in DOMAIN d.user_challenge_progress \cup keys |->
                IF key \in keys
                THEN MarkCompleted(
                         UpdateProgress(ProgressRow(d, key),
                                        weekly_challenges[key[2]].target),
                         weekly_challenges[key[2]].target)
                ELSE d.user_challenge_progress[key]]]

\* COUNT(*) and the two SUM(CASE ...) over the user's waste_disposal rows.
DisposalCount(d, user_id, bin_types) ==
    LET rows == {row \in BagToSet(d.user_activities) :
                    /\ row.user_id = user_id
                    /\ row.activity_type = "waste_disposal"
                    /\ row.bin_type \in bin_types}
    IN  BagCardinality([row \in rows |-> d.user_activities[row]])

UserStats(d, user_id) ==
    [total_disposals  |-> DisposalCount(d, user_id,
                              {row.bin_type : row \in BagToSet(d.user_activities)}),
     recyclable_count |-> DisposalCount(d, user_id, {"reciclavel"}),
     organic_count    |-> DisposalCount(d, user_id, {"organico"}),
     level            |-> d.users[user_id].level,
     points           |-> d.users[user_id].points]

earned(achievement, stats) ==
    \/ /\ achievement.requirement_type = "disposal_count"
       /\ stats.total_disposals >= achievement.requirement_value
    \/ /\ achievement.requirement_type = "recyclable_count"
       /\ stats.recyclable_count >= achievement.requirement_value
    \/ /\ achievement.requirement_type = "organic_count"
       /\ stats.organic_count >= achievement.requirement_value
    \/ /\ achievement.requirement_type = "level"
       /\ stats.level >= achievement.requirement_value
    \/ /\ achievement.requirement_type = "total_points"
       /\ stats.points >= achievement.requirement_value

\* WHERE id NOT IN (SELECT achievement_id FROM user_achievements
\*                  WHERE user_id = ?)
available_achievements(d, user_id) ==
    {id \in 1..Len(achievements) :
        ~BagIn([user_id |-> user_id, achievement_id |-> id],
               d.user_achievements)}

\* The body of "if earned": the two INSERTs and the notification, which is
\* sent while this connection's write is uncommitted.
Award(d, user_id, achievement_id) ==
    send_achievement_notification(
        [d EXCEPT
            !.user_achievements =
                Insert(@, [user_id |-> user_id,
                           achievement_id |-> achievement_id]),
            !.user_activities =
                Insert(@, ActivityRow(user_id, "achievement",
                                      achievements[achievement_id].points_reward,
                                      "", achievement_id))],
        user_id, achievement_id, TRUE)

RECURSIVE AwardLoop(_, _, _, _, _)
AwardLoop(d, user_id, stats, available, id) ==
    IF id > Len(achievements)
    THEN d
    ELSE IF id \in available /\ earned(achievements[id], stats)
    THEN AwardLoop(Award(d, user_id, id), user_id, stats, available, id + 1)
    ELSE AwardLoop(d, user_id, stats, available, id + 1)

check_achievements_AllAchievements(d, user_id) ==
    IF user_id \notin DOMAIN d.users
    THEN d
    ELSE AwardLoop(d, user_id, UserStats(d, user_id),
                   1..Len(achievements), 1)

\* The rows awarded are outside the user's rows of user_achievements, so
\* the table's UNIQUE(user_id, achievement_id) never rejects an INSERT.
check_achievements(d, user_id) ==
    IF user_id \notin DOMAIN d.users
    THEN d
    ELSE AwardLoop(d, user_id, UserStats(d, user_id),
                   available_achievements(d, user_id), 1)

process_waste_disposal(d, user_id, bin_type, random_bonus) ==
    LET base_points  == 10
        bonus_points == type_bonuses(bin_type)
        total_points == base_points + bonus_points + random_bonus
    IN  [value |-> total_points,
         db |-> send_points_notification(
                    check_achievements(
                        update_challenge_progress(
                            record_user_activity(d, user_id, "waste_disposal",
                                                 total_points, bin_type),
                            user_id, bin_type),
                        user_id),
                    user_id, total_points)]

redeem_reward_AnyBalance(d, user_id, reward_id) ==
    IF reward_id \notin DOMAIN d.rewards \/ ~d.rewards[reward_id].available
    THEN [value |-> FALSE, db |-> d]
    ELSE IF user_id \notin DOMAIN d.users
    THEN [value |-> FALSE, db |-> d]
    ELSE [value |-> TRUE,
          db |-> send_reward_notification(
                     [d EXCEPT
                         !.user_rewards =
                             Insert(@, [user_id |-> user_id,
                                        reward_id |-> reward_id]),
                         !.user_activities =
                             Insert(@, ActivityRow(user_id, "reward_redeemed",
                                                   0 - d.rewards[reward_id].cost,
                                                   "", reward_id))],
                     user_id, reward_id)]

\* Every path that returns False does so before the first INSERT: no
\* reward row, fetchone()[0] on a missing user (TypeError, caught), or
\* user_points < cost.
redeem_reward(d, user_id, reward_id) ==
    IF reward_id \notin DOMAIN d.rewards \/ ~d.rewards[reward_id].available
    THEN [value |-> FALSE, db |-> d]
    ELSE IF user_id \notin DOMAIN d.users
    THEN [value |-> FALSE, db |-> d]
    ELSE IF d.users[user_id].points < d.rewards[reward_id].cost
    THEN [value |-> FALSE, db |-> d]
    ELSE [value |-> TRUE,
          db |-> send_reward_notification(
                     [d EXCEPT
                         !.user_rewards =
                             Insert(@, [user_id |-> user_id,
                                        reward_id |-> reward_id]),
                         !.user_activities =
                             Insert(@, ActivityRow(user_id, "reward_redeemed",
                                                   0 - d.rewards[reward_id].cost,
                                                   "", reward_id))],
                     user_id, reward_id)]

\* ----------------------------------------------------------- the machine
\* The caller's lists.  Object references are arbitrary names, so only the
\* lists that name their objects in order of first occurrence are drawn
\* (1, then 2, ...); an object no list element refers to stays at the depot.
\* random.shuffle of a copy of the list: any arrangement of its elements.
Shuffles(list) ==
    {[i \in 1..Len(list) |-> list[pi[i]]] : pi \in Permutations(1..Len(list))}

\* The metrics of the shuffle itself, not sequenced.
AlternativeMetrics_Unsequenced(h, bins_for_collection) ==
    {calculate_route_metrics(h, shuffled_bins, factor) :
         shuffled_bins \in Shuffles(bins_for_collection), factor \in Factors}

\* What one pass of the loop of get_alternative_routes may compute: the
\* metrics of the sequenced shuffle, for every shuffle and every draw.
AlternativeMetrics(h, bins_for_collection) ==
    {calculate_route_metrics(h, nearest_neighbor_algorithm(h, shuffled_bins),
                             factor) :
         shuffled_bins \in Shuffles(bins_for_collection), factor \in Factors}

\* The for loop of get_alternative_routes; metrics[i + 1] is what pass i
\* computes.  An exception of calculate_route_metrics ends the call.
RECURSIVE AlternativesLoop(_, _, _, _)
AlternativesLoop(bins_for_collection, metrics, i, alternatives) ==
    IF i >= NumAlternatives THEN [status |-> "ok", plans |-> alternatives]
    ELSE IF ~(Len(bins_for_collection) > 1)
    THEN AlternativesLoop(bins_for_collection, metrics, i + 1, alternatives)
    ELSE IF metrics[i + 1].status # "ok"
    THEN [status |-> metrics[i + 1].status, plans |-> <<>>]
    ELSE AlternativesLoop(bins_for_collection, metrics, i + 1,
             Append(alternatives,
                    [metrics[i + 1].plan EXCEPT
                         !.keys = @ \cup {"route_id", "description"}]
                        @@ [route_id |-> i + 1]))

get_alternative_routes(bins_for_collection, metrics) ==
    AlternativesLoop(bins_for_collection, metrics, 0, <<>>)

\* route_metrics.get(key, 0).
Get(route_metrics, key, value) ==
    IF key \in route_metrics.keys THEN value ELSE 0

\* The score with the savings counted once.
calculate_environmental_impact_SingleWeight(route_metrics) ==
    LET total_distance       == Get(route_metrics, "total_distance",
                                    route_metrics.total_distance)
        fuel_savings_percent == Get(route_metrics, "fuel_savings",
                                    route_metrics.fuel_savings)
        fuel_consumed        == total_distance * FuelPerKm
        fuel_saved           == fuel_consumed * fuel_savings_percent
    IN  [fuel_consumed_liters |-> RoundHalfEven(fuel_consumed, 100),
         fuel_saved_liters    |-> RoundHalfEven(fuel_saved, 100 * 1000),
         co2_emitted_kg       |-> RoundHalfEven(fuel_consumed * Co2PerLiter,
                                                100 * 10),
         co2_saved_kg         |-> RoundHalfEven(fuel_saved * Co2PerLiter,
                                                100 * 1000 * 10),
         environmental_score  |-> Min(EnvironmentalCap,
                                      EnvironmentalBase
                                          + fuel_savings_percent)]

\* Litres and kilograms are held in hundredths, as round(x, 2) leaves them.
calculate_environmental_impact(route_metrics) ==
    LET total_distance       == Get(route_metrics, "total_distance",
                                    route_metrics.total_distance)
        fuel_savings_percent == Get(route_metrics, "fuel_savings",
                                    route_metrics.fuel_savings)
        fuel_consumed        == total_distance * FuelPerKm
        fuel_saved           == fuel_consumed * fuel_savings_percent
        co2_emitted          == fuel_consumed * Co2PerLiter
        co2_saved            == fuel_saved * Co2PerLiter
    IN  [fuel_consumed_liters |-> RoundHalfEven(fuel_consumed, 100),
         fuel_saved_liters    |-> RoundHalfEven(fuel_saved, 100 * 1000),
         co2_emitted_kg       |-> RoundHalfEven(co2_emitted, 100 * 10),
         co2_saved_kg         |-> RoundHalfEven(co2_saved, 100 * 1000 * 10),
         environmental_score  |-> Min(EnvironmentalCap,
                                      EnvironmentalBase
                                          + fuel_savings_percent * 2)]

InOrderOfFirstUse(list) ==
    \A i \in 1..Len(list) :
        list[i] = 1 \/ \E j \in 1..(i - 1) : list[j] = list[i] - 1

Used(list) == {list[i] : i \in 1..Len(list)}

Inputs ==
    {in \in [heap : FreshHeaps, points : BinLists] :
        /\ InOrderOfFirstUse(in.points)
        /\ \A r \in Refs \ Used(in.points) : in.heap[r].coordinates = Depot}

NoCall == [op |-> "none", num_trucks |-> 0]

NoResult == [status |-> "none", route |-> <<>>, plans |-> <<>>]

Init ==
    /\ base_location = Depot
    /\ avg_speed_kmh = DefaultSpeed
    /\ service_time_minutes = DefaultServiceTime
    /\ \E in \in Inputs : points = in.points /\ heap = in.heap
    /\ call = NoCall
    /\ result = NoResult
    /\ Holds(SeededDatabase(14))

\* The hosting application sets the average speed of the instance (the
\* attribute is public, the constructor takes no argument).
Configure ==
    /\ call = NoCall
    /\ \E s \in Speeds : avg_speed_kmh' = s
    /\ UNCHANGED <<base_location, service_time_minutes, points, call, heap,
                   result>>
    /\ UNCHANGED database

\* The sequencer moving the depot along with its current location (the
\* local name and the attribute are the same list object at first).
NearestNeighbor_MovesDepot ==
    /\ call = NoCall
    /\ call' = [op |-> "nearest_neighbor_algorithm", num_trucks |-> 0]
    /\ heap' = heap
    /\ result' = [status |-> "ok",
                  route |-> nearest_neighbor_algorithm(heap, points),
                  plans |-> <<>>]
    /\ base_location' = LastLocation(heap,
                                     nearest_neighbor_algorithm(heap, points))
    /\ UNCHANGED <<avg_speed_kmh, service_time_minutes, points>>
    /\ UNCHANGED database

\* The sequencer emptying the caller's list itself (no copy taken).
NearestNeighbor_InPlace ==
    /\ call = NoCall
    /\ call' = [op |-> "nearest_neighbor_algorithm", num_trucks |-> 0]
    /\ heap' = heap
    /\ result' = [status |-> "ok",
                  route |-> nearest_neighbor_algorithm(heap, points),
                  plans |-> <<>>]
    /\ points' = <<>>
    /\ UNCHANGED <<base_location, avg_speed_kmh, service_time_minutes>>
    /\ UNCHANGED database

NearestNeighbor ==
    /\ call = NoCall
    /\ call' = [op |-> "nearest_neighbor_algorithm", num_trucks |-> 0]
    /\ heap' = heap
    /\ result' = [status |-> "ok",
                  route |-> nearest_neighbor_algorithm(heap, points),
                  plans |-> <<>>]
    /\ UNCHANGED <<base_location, avg_speed_kmh, service_time_minutes, points>>
    /\ UNCHANGED database

RouteMetrics ==
    /\ call = NoCall
    /\ \E factor \in Factors :
        \E r \in {calculate_route_metrics(heap, points, factor)} :
            /\ call' = [op |-> "calculate_route_metrics", num_trucks |-> 0]
            /\ heap' = heap
            /\ result' = [status |-> r.status, route |-> <<>>,
                          plans |-> IF r.status = "ok" THEN <<r.plan>>
                                    ELSE <<>>]
            /\ UNCHANGED <<base_location, avg_speed_kmh, service_time_minutes,
                           points>>
    /\ UNCHANGED database

OptimalRoute ==
    /\ call = NoCall
    /\ \E factor \in Factors :
        \E r \in {calculate_optimal_route(heap, points, factor)} :
            /\ call' = [op |-> "calculate_optimal_route", num_trucks |-> 0]
            /\ heap' = r.heap
            /\ result' = [status |-> r.out.status, route |-> <<>>,
                          plans |-> IF r.out.status = "ok" THEN <<r.out.plan>>
                                    ELSE <<>>]
            /\ UNCHANGED <<base_location, avg_speed_kmh, service_time_minutes,
                           points>>
    /\ UNCHANGED database

MultiTruck ==
    /\ call = NoCall
    /\ \E num_trucks \in TruckCounts :
       \E factors \in [1..num_trucks -> Factors] :
        \E r \in {optimize_multi_truck_routes(heap, points, num_trucks,
                                               factors)} :
            /\ call' = [op |-> "optimize_multi_truck_routes",
                        num_trucks |-> num_trucks]
            /\ heap' = r.heap
            /\ result' = [status |-> r.status, route |-> <<>>,
                          plans |-> r.plans]
            /\ UNCHANGED <<base_location, avg_speed_kmh, service_time_minutes,
                           points>>
    /\ UNCHANGED database

AlternativeRoutes ==
    /\ call = NoCall
    /\ \E outcomes \in {AlternativeMetrics(heap, points)} :
       \E metrics \in [1..NumAlternatives -> outcomes] :
        \E r \in {get_alternative_routes(points, metrics)} :
            /\ call' = [op |-> "get_alternative_routes", num_trucks |-> 0]
            /\ result' = [status |-> r.status, route |-> <<>>,
                          plans |-> r.plans]
    /\ UNCHANGED <<base_location, avg_speed_kmh, service_time_minutes, points,
                   heap>>
    /\ UNCHANGED database

\* The caller passes a plan it has just been returned (as
\* get_route_statistics does) and holds the plan and its impact afterwards.
EnvironmentalImpact ==
    /\ call.op \in {"calculate_route_metrics", "calculate_optimal_route",
                    "optimize_multi_truck_routes", "get_alternative_routes"}
    /\ result.status = "ok"
    /\ \E i \in 1..Len(result.plans) :
        /\ call' = [op |-> "calculate_environmental_impact", num_trucks |-> 0]
        /\ result' = [status |-> "ok", route |-> <<>>,
                      plans |-> <<result.plans[i]>>,
                      impact |-> calculate_environmental_impact(
                                     result.plans[i])]
    /\ UNCHANGED <<base_location, avg_speed_kmh, service_time_minutes, points,
                   heap>>
    /\ UNCHANGED database

\* The operations are synchronous: the caller takes the returned value (or
\* the exception) and goes on; the point objects stay as the call left them.
Return ==
    /\ call # NoCall
    /\ call' = NoCall
    /\ result' = NoResult
    /\ UNCHANGED <<base_location, avg_speed_kmh, service_time_minutes, points,
                   heap>>
    /\ UNCHANGED database

Next ==
    \/ NearestNeighbor
    \/ RouteMetrics
    \/ OptimalRoute
    \/ MultiTruck
    \/ AlternativeRoutes
    \/ EnvironmentalImpact
    \/ Return

Spec == Init /\ [][Next]_vars

\* The same machine with an instance whose speed the application sets.
NextConfigurable ==
    \/ Configure
    \/ NearestNeighbor
    \/ RouteMetrics
    \/ OptimalRoute
    \/ MultiTruck
    \/ AlternativeRoutes
    \/ EnvironmentalImpact
    \/ Return

SpecConfigurable == Init /\ [][NextConfigurable]_vars

\* ------------------------------------------- the sequencer, pass by pass
\* nearest_neighbor_algorithm run one pass of its while loop at a time.
\* call is the frame of the running call: its local names and where it
\* stands; passes counts the passes made (an observer, no name of the code).
SequencerFrame(pc, current_location, unvisited_bins, route, passes) ==
    [op |-> "nearest_neighbor_algorithm", num_trucks |-> 0, pc |-> pc,
     current_location |-> current_location, unvisited_bins |-> unvisited_bins,
     route |-> route, passes |-> passes]

\* The running call stands at pc.
SequencerAt(pc) ==
    /\ call.op = "nearest_neighbor_algorithm"
    /\ "pc" \in DOMAIN call
    /\ call.pc = pc

\* Entry: an empty list returns [] at once, any other list starts the loop
\* at the depot with a copy of the list and an empty route.
SequencerEnter ==
    /\ call = NoCall
    /\ IF points = <<>>
       THEN /\ call' = SequencerFrame("done", base_location, <<>>, <<>>, 0)
            /\ result' = [status |-> "ok", route |-> <<>>, plans |-> <<>>]
       ELSE /\ call' = SequencerFrame("while", base_location, points, <<>>, 0)
            /\ result' = result
    /\ UNCHANGED <<base_location, avg_speed_kmh, service_time_minutes, points,
                   heap>>
    /\ UNCHANGED database

\* One pass of the loop body.
SequencerPass ==
    /\ SequencerAt("while")
    /\ call.unvisited_bins # <<>>
    /\ \E nearest_bin \in {call.unvisited_bins[
                               NearestIndex(heap, call.current_location,
                                            call.unvisited_bins)]} :
        call' = SequencerFrame("while",
                               heap[nearest_bin].coordinates,
                               ListRemove(heap, call.unvisited_bins,
                                          nearest_bin),
                               Append(call.route, nearest_bin),
                               call.passes + 1)
    /\ UNCHANGED <<base_location, avg_speed_kmh, service_time_minutes, points,
                   heap, result>>
    /\ UNCHANGED database

\* The loop condition fails: return route.
SequencerExit ==
    /\ SequencerAt("while")
    /\ call.unvisited_bins = <<>>
    /\ call' = [call EXCEPT !.pc = "done"]
    /\ result' = [status |-> "ok", route |-> call.route, plans |-> <<>>]
    /\ UNCHANGED <<base_location, avg_speed_kmh, service_time_minutes, points,
                   heap>>
    /\ UNCHANGED database

NextSequencer ==
    \/ SequencerEnter
    \/ SequencerPass
    \/ SequencerExit

\* The call is synchronous: a pass or the exit that can be taken is taken.
SequencerFairness ==
    /\ WF_vars(SequencerPass)
    /\ WF_vars(SequencerExit)

SpecSequencer == Init /\ [][NextSequencer]_vars /\ SequencerFairness

\* ------------------------------------------- the gamification system alone
\* A seeded database in which one reward has been withdrawn (its available
\* column cleared), on a day of the challenges' week or on a later day.
InitGamification ==
    /\ base_location = Depot
    /\ avg_speed_kmh = DefaultSpeed
    /\ service_time_minutes = DefaultServiceTime
    /\ \E in \in Inputs :
           in.points = <<>> /\ points = in.points /\ heap = in.heap
    /\ call = NoCall
    /\ result = NoResult
    /\ \E day \in Days :
           Holds([SeededDatabase(day) EXCEPT
                      !.rewards[2].available = FALSE])

optimizer == <<base_location, avg_speed_kmh, service_time_minutes, points, heap>>

\* The number of calls of process_waste_disposal so far: each leaves one
\* waste_disposal row.
Disposals ==
    BagCardinality([row \in {r \in BagToSet(user_activities) :
                                r.activity_type = "waste_disposal"} |->
                        user_activities[row]])

ProcessWasteDisposalCall(user_id, bin_type, random_bonus) ==
    /\ \E r \in {process_waste_disposal(Current, user_id, bin_type,
                                        random_bonus)} :
           /\ Store(r.db)
           /\ call' = [op |-> "process_waste_disposal"]
           /\ result' = [status |-> "ok", value |-> r.value]
    /\ UNCHANGED optimizer

ProcessWasteDisposal ==
    /\ Disposals < MaxDisposals
    /\ \E user_id \in UserIds, bin_type \in BinTypes,
          random_bonus \in RandomBonuses :
           ProcessWasteDisposalCall(user_id, bin_type, random_bonus)

RedeemRewardCall(user_id, reward_id) ==
    /\ \E r \in {redeem_reward(Current, user_id, reward_id)} :
           /\ Store(r.db)
           /\ call' = [op |-> "redeem_reward"]
           /\ result' = [status |-> "ok", value |-> r.value]
    /\ UNCHANGED optimizer

RedeemReward ==
    /\ BagCardinality(user_rewards) < MaxRedemptions
    /\ \E user_id \in UserIds, reward_id \in RewardIds :
           RedeemRewardCall(user_id, reward_id)

NextGamification ==
    \/ ProcessWasteDisposal
    \/ RedeemReward

SpecGamification == InitGamification /\ [][NextGamification]_vars

\* ================================================================ claims
Count(list, x) == Cardinality({i \in 1..Len(list) : list[i] = x})

\* b holds the elements of a, each as often as a does.
IsPermutation(a, b) ==
    /\ Len(a) = Len(b)
    /\ \A r \in Refs : Count(a, r) = Count(b, r)

RECURSIVE AllStops(_, _)
AllStops(plans, i) ==
    IF i > Len(plans) THEN <<>> ELSE plans[i].stops \o AllStops(plans, i + 1)

IsFleetCall == call.op = "optimize_multi_truck_routes"

IsRouteCall == call.op \in {"calculate_route_metrics", "calculate_optimal_route"}

\* C1: nearest_neighbor_algorithm returns a permutation of its input: same
\* length, every input point in it, none more often than in the input.
C1_SequencerPermutes ==
    call.op = "nearest_neighbor_algorithm"
        => IsPermutation(points, result.route)

\* C1 witness: three points were sequenced into another order than given.
C1_Witness ==
    /\ call.op = "nearest_neighbor_algorithm"
    /\ Len(points) = 3
    /\ Cardinality(Used(points)) = 3
    /\ result.route # points

C3_NonPositiveFleetRejected ==
    (IsFleetCall /\ call.num_trucks <= 0)
        => result.status = "InvalidConfiguration"

\* The slice the claim gives the truck with 0-based index k: the points
\* at the 0-based indices k * size up to (k + 1) * size, and up to the end
\* of the list for the last truck.
SliceSize(n, num_trucks, k) ==
    IF k < num_trucks - 1 THEN n \div num_trucks
    ELSE (n \div num_trucks) + (n % num_trucks)

ClaimedSlice(list, num_trucks, k) ==
    [i \in 1..SliceSize(Len(list), num_trucks, k) |->
        list[k * (Len(list) \div num_trucks) + i]]

PlansOfTruck(k) ==
    {i \in 1..Len(result.plans) : result.plans[i].truck_id = k + 1}

C5_NoEmptyPlans ==
    (IsFleetCall /\ result.status = "ok")
        => /\ \A i \in 1..Len(result.plans) : Len(result.plans[i].stops) >= 1
           /\ call.num_trucks > 0 => Len(result.plans) <= call.num_trucks
           /\ (points = <<>> /\ call.num_trucks > 0) => result.plans = <<>>

\* C5 witness: two trucks and one point, so the first truck got nothing and
\* the fleet plan holds the one plan of the second truck.
C5_Witness ==
    /\ IsFleetCall
    /\ call.num_trucks = 2
    /\ result.status = "ok"
    /\ Len(points) = 1
    /\ Len(result.plans) = 1
    /\ result.plans[1].truck_id = 2

\* C6: with a positive average speed, calculate_route_metrics and
\* calculate_optimal_route return a plan for every non-empty list, also when
\* every point lies at the depot and the walk has length 0.
C6_NonEmptyNeverRaises ==
    (IsRouteCall /\ points # <<>> /\ avg_speed_kmh > 0)
        => result.status = "ok"

\* C7: for the empty list, calculate_route_metrics and
\* calculate_optimal_route return, without raising, a plan of distance 0,
\* time 0, fuel savings 0, with no coordinates and no stops.
C7_EmptyIsZeroPlan ==
    (IsRouteCall /\ points = <<>>)
        => /\ result.status = "ok"
           /\ Len(result.plans) = 1
           /\ result.plans[1].total_distance = 0
           /\ result.plans[1].estimated_time = 0
           /\ result.plans[1].fuel_savings = 0
           /\ result.plans[1].coordinates = <<>>
           /\ result.plans[1].stops = <<>>
           /\ {"total_distance", "estimated_time", "fuel_savings",
               "coordinates", "stops"} \subseteq result.plans[1].keys

\* C7 witness: calculate_optimal_route has been called on the empty list.
C7_Witness ==
    /\ call.op = "calculate_optimal_route"
    /\ points = <<>>
    /\ result.status = "ok"

\* Some point of the caller's list lies away from the depot.
LeavesDepot ==
    \E i \in 1..Len(points) : heap[points[i]].coordinates # base_location

\* C8: with an average speed <= 0, an optimisation call fails with an
\* InvalidConfiguration error: it returns no plan and raises nothing else
\* (stated for the calls whose walk has a positive length).
C8_BadSpeedRejected ==
    (avg_speed_kmh <= 0 /\ (IsRouteCall \/ IsFleetCall) /\ LeavesDepot)
        => result.status = "InvalidConfiguration"

\* C9: no operation changes a point object it was given: every field of
\* every point is after the call what it was before.
C9_PointsNotMutated ==
    [][heap' = heap]_vars

\* The closed walk depot, stop 1, ..., stop n, depot of the caller's list.
ClosedWalk ==
    <<base_location>>
        \o [i \in 1..Len(points) |-> heap[points[i]].coordinates]
        \o <<base_location>>

RECURSIVE SumOfLegs(_, _)
SumOfLegs(walk, i) ==
    IF i >= Len(walk) THEN 0
    ELSE calculate_distance(walk[i], walk[i + 1]) + SumOfLegs(walk, i + 1)

MetricsReturned ==
    /\ call.op = "calculate_route_metrics"
    /\ points # <<>>
    /\ result.status = "ok"

ReturnedRoutePlans ==
    IF /\ call.op \in {"calculate_optimal_route",
                       "optimize_multi_truck_routes"}
       /\ result.status = "ok"
    THEN {result.plans[i] : i \in 1..Len(result.plans)}
    ELSE {}

\* C11: every plan returned by calculate_optimal_route and every plan of a
\* fleet plan carries the key route_efficiency_score, its value is
\* min(95, 70 + fuel_savings), and it lies within [0, 95].
C11_EfficiencyScore ==
    \A plan \in ReturnedRoutePlans :
        /\ "route_efficiency_score" \in plan.keys
        /\ plan.route_efficiency_score
               = Min(EfficiencyCap, EfficiencyBase + plan.fuel_savings)
        /\ plan.route_efficiency_score >= 0
        /\ plan.route_efficiency_score <= EfficiencyCap


\* C12: the environmental_score returned for a route plan is
\* min(100, 50 + 2 * fuel_savings) and lies within [0, 100].
C12_EnvironmentalScore ==
    call.op = "calculate_environmental_impact"
        => /\ result.impact.environmental_score
                = Min(EnvironmentalCap,
                      EnvironmentalBase + 2 * result.plans[1].fuel_savings)
           /\ result.impact.environmental_score >= 0
           /\ result.impact.environmental_score <= EnvironmentalCap

\* C12 witness: the impact of a plan for three stops with savings above 20 %.
C12_Witness ==
    /\ call.op = "calculate_environmental_impact"
    /\ Len(result.plans[1].stops) = 3
    /\ result.plans[1].fuel_savings > 200
    /\ result.impact.environmental_score > 900
    /\ result.impact.co2_saved_kg > 0


\* The locations the optimizer measures between in this state.
Locations == {base_location} \cup {heap[r].coordinates : r \in Refs}

SameButSavings(p, q) ==
    /\ p.stops = q.stops
    /\ p.coordinates = q.coordinates
    /\ p.total_distance = q.total_distance
    /\ p.travel_time = q.travel_time
    /\ p.service_time = q.service_time
    /\ p.estimated_time = q.estimated_time
    /\ p.number_of_stops = q.number_of_stops

SamePlansButSavings(ps, qs) ==
    /\ Len(ps) = Len(qs)
    /\ \A i \in 1..Len(ps) : SameButSavings(ps[i], qs[i])

\* C14: a second call of the same operation with the same configuration on
\* the same list, whatever it draws, ends as the first did and returns the
\* same stop order, polyline, total_distance, travel, service and estimated
\* time; fuel_savings and the scores derived from it alone may differ.
C14_SecondCallAgrees ==
    /\ call.op = "calculate_route_metrics"
        => \A factor \in Factors :
             LET again == calculate_route_metrics(heap, points, factor)
             IN  /\ again.status = result.status
                 /\ again.status = "ok"
                      => SameButSavings(result.plans[1], again.plan)
    /\ call.op = "calculate_optimal_route"
        => \A factor \in Factors :
             LET again == calculate_optimal_route(heap, points, factor).out
             IN  /\ again.status = result.status
                 /\ again.status = "ok"
                      => SameButSavings(result.plans[1], again.plan)
    /\ (IsFleetCall /\ call.num_trucks > 0)
        => \A factors \in [1..call.num_trucks -> Factors] :
             LET again == optimize_multi_truck_routes(heap, points,
                                                      call.num_trucks, factors)
             IN  /\ again.status = result.status
                 /\ again.status = "ok"
                      => SamePlansButSavings(result.plans, again.plans)

\* C14 witness: a single-route call for three points returned, the points
\* carry what it wrote, and a second call drawing the other factor returns
\* other fuel_savings.
C14_Witness ==
    /\ call.op = "calculate_optimal_route"
    /\ result.status = "ok"
    /\ Len(points) = 3
    /\ \A i \in 1..3 : "sequence" \in heap[points[i]].keys
    /\ \E factor \in Factors :
         calculate_optimal_route(heap, points, factor).out.plan.fuel_savings
             # result.plans[1].fuel_savings


\* The orders in which num_trucks per-vehicle computations may be run.
Orders(num_trucks) ==
    {order \in [1..num_trucks -> 0..(num_trucks - 1)] :
        \A i \in 1..num_trucks : \A j \in 1..num_trucks :
            order[i] = order[j] => i = j}

\* The plans computed so far, in vehicle order.
RECURSIVE InTruckOrder(_, _, _)
InTruckOrder(done, truck_id, num_trucks) ==
    IF truck_id >= num_trucks THEN <<>>
    ELSE (IF truck_id \in DOMAIN done THEN <<done[truck_id]>> ELSE <<>>)
             \o InTruckOrder(done, truck_id + 1, num_trucks)

\* The per-vehicle computations of the fleet operation run one after the
\* other in the given order, each on the point objects as the ones before
\* it left them; the plans are collected in vehicle order.
RECURSIVE FleetInOrder(_, _, _, _, _, _, _)
FleetInOrder(h, bins_for_collection, num_trucks, factors, order, k, done) ==
    IF k > Len(order)
    THEN [status |-> "ok", plans |-> InTruckOrder(done, 0, num_trucks),
          heap |-> h]
    ELSE LET truck_id   == order[k]
             truck_bins == TruckBins(bins_for_collection, num_trucks, truck_id)
             r          == calculate_optimal_route(h, truck_bins,
                                                   factors[truck_id + 1])
         IN  IF ~HasBins(truck_bins)
             THEN FleetInOrder(h, bins_for_collection, num_trucks, factors,
                               order, k + 1, done)
             ELSE IF r.out.status # "ok"
             THEN [status |-> r.out.status, plans |-> <<>>, heap |-> r.heap]
             ELSE FleetInOrder(r.heap, bins_for_collection, num_trucks,
                               factors, order, k + 1,
                               done @@ (truck_id :>
                                   [r.out.plan EXCEPT
                                       !.keys = @ \cup {"truck_id",
                                                        "truck_name",
                                                        "driver"},
                                       !.truck_id = truck_id + 1]))

\* The fleet call that this step makes returns what the per-vehicle
\* computations give when run in the given order: the same plans but for
\* the random draws, with the same stop objects in the same state.
SameFleetPlanInOrder(order) ==
    \A factors \in [1..call'.num_trucks -> Factors] :
        LET r == FleetInOrder(heap, points, call'.num_trucks, factors, order,
                              1, <<>>)
        IN  /\ r.status = result'.status
            /\ r.status = "ok"
                 => /\ SamePlansButSavings(result'.plans, r.plans)
                    /\ r.heap = heap'

IsFleetStep ==
    /\ call = NoCall
    /\ call'.op = "optimize_multi_truck_routes"
    /\ call'.num_trucks > 0
    /\ points # <<>>

\* C15: the per-vehicle computations of optimize_multi_truck_routes are
\* independent: run in any order they yield the fleet plan that the
\* sequential run in vehicle order yields.
C15_AnyOrderSameFleetPlan ==
    [][IsFleetStep
          => \A order \in Orders(call'.num_trucks) :
                 SameFleetPlanInOrder(order)]_vars


\* C16: the depot, the average speed and the service time per stop are as
\* the constructor set them, whatever operations were called (sequencing,
\* metrics, single-route, alternative-route, fleet, impact).
C16_ConfigurationFixed ==
    /\ base_location = Depot
    /\ avg_speed_kmh = DefaultSpeed
    /\ service_time_minutes = DefaultServiceTime

\* C16 witness: an alternative-route call returned two plans after an
\* earlier single-route or fleet call had run on the same points, and the
\* configuration is the constructed one.
C16_Witness ==
    /\ call.op = "get_alternative_routes"
    /\ Len(result.plans) = NumAlternatives
    /\ \E r \in Used(points) : "sequence" \in heap[r].keys
    /\ C16_ConfigurationFixed


\* list without its first occurrence of the object x.
RemoveFirst(list, x) ==
    IF \E i \in 1..Len(list) : list[i] = x
    THEN LET i == CHOOSE k \in 1..Len(list) :
                      /\ list[k] = x
                      /\ \A j \in 1..(k - 1) : list[j] # x
         IN  SubSeq(list, 1, i - 1) \o SubSeq(list, i + 1, Len(list))
    ELSE list

\* The points of the input list not yet in the route when its k-th stop is
\* chosen, in input order.
RECURSIVE UnvisitedAt(_, _, _)
UnvisitedAt(list, route, k) ==
    IF k = 1 THEN list
    ELSE RemoveFirst(UnvisitedAt(list, route, k - 1), route[k - 1])

\* Where the vehicle is when the k-th stop is chosen.
CurrentAt(route, k) ==
    IF k = 1 THEN base_location ELSE heap[route[k - 1]].coordinates

DistanceAt(route, k, x) ==
    calculate_distance(CurrentAt(route, k), heap[x].coordinates)

IsSequencerCall == call.op = "nearest_neighbor_algorithm"

\* C17: each stop of the route returned by nearest_neighbor_algorithm is one
\* of the points unvisited when it was chosen, and none of those is nearer
\* to the current location (the depot first, the previous stop afterwards).
C17_NearestChosen ==
    IsSequencerCall
        => \A k \in 1..Len(result.route) :
             LET pool == UnvisitedAt(points, result.route, k)
             IN  /\ \E i \in 1..Len(pool) : pool[i] = result.route[k]
                 /\ \A i \in 1..Len(pool) :
                        DistanceAt(result.route, k, result.route[k])
                            <= DistanceAt(result.route, k, pool[i])

\* C17 witness: three points at three different distances from the depot,
\* the nearest of them given last and visited first.
C17_Witness ==
    /\ IsSequencerCall
    /\ Len(points) = 3
    /\ result.route[1] = points[3]
    /\ DistanceAt(result.route, 1, points[3])
           < DistanceAt(result.route, 1, points[2])
    /\ DistanceAt(result.route, 1, points[2])
           < DistanceAt(result.route, 1, points[1])

\* C18: when several unvisited points lie at the least distance from the
\* current location, the stop chosen is the one of them that comes first
\* in the input list.
C18_FirstOfTiesChosen ==
    IsSequencerCall
        => \A k \in 1..Len(result.route) :
             LET pool     == UnvisitedAt(points, result.route, k)
                 least(i) == \A j \in 1..Len(pool) :
                                 DistanceAt(result.route, k, pool[i])
                                     <= DistanceAt(result.route, k, pool[j])
             IN  \A i \in 1..Len(pool) :
                     (least(i) /\ \A j \in 1..(i - 1) : ~least(j))
                         => result.route[k] = pool[i]

\* C18 witness: of three points given, the second and the third are different
\* objects at different places at the same least distance from the depot,
\* the first lies farther; the second was visited first.
C18_Witness ==
    /\ IsSequencerCall
    /\ Len(points) = 3
    /\ points[2] # points[3]
    /\ heap[points[2]].coordinates # heap[points[3]].coordinates
    /\ DistanceAt(result.route, 1, points[2])
           = DistanceAt(result.route, 1, points[3])
    /\ DistanceAt(result.route, 1, points[2])
           < DistanceAt(result.route, 1, points[1])
    /\ result.route[1] = points[2]


\* A pass of the loop moves exactly one point from the pool to the route.
PassMovesOne ==
    (SequencerAt("while") /\ call'.passes = call.passes + 1)
        => /\ Len(call'.unvisited_bins) = Len(call.unvisited_bins) - 1
           /\ Len(call'.route) = Len(call.route) + 1

\* The call has returned after as many passes as the list has points, with
\* an empty pool.
ReturnedAfterEveryPoint ==
    SequencerAt("done")
        => /\ call.passes = Len(points)
           /\ call.unvisited_bins = <<>>
           /\ Len(result.route) = Len(points)

\* C19: nearest_neighbor_algorithm terminates: every pass of its loop takes
\* exactly one point out of the unvisited pool and appends exactly one to
\* the route, and a call that entered the loop returns, after exactly n
\* passes for n points (none for the empty list) and with an empty pool.
C19_SequencerTerminates ==
    /\ [][PassMovesOne]_vars
    /\ []ReturnedAfterEveryPoint
    /\ SequencerAt("while") ~> SequencerAt("done")

\* C19 witness: the call returned for three points after three passes.
C19_Witness ==
    /\ SequencerAt("done")
    /\ Len(points) = 3
    /\ call.passes = 3
    /\ result.route # points


\* C20: the polyline returned by calculate_route_metrics for n >= 1 stops
\* has n + 2 entries: the depot, the coordinates of the stops in order, the
\* depot.
C20_PolylineClosed ==
    MetricsReturned
        => LET coordinates == result.plans[1].coordinates
               n           == Len(points)
           IN  /\ Len(coordinates) = n + 2
               /\ coordinates[1] = base_location
               /\ coordinates[n + 2] = base_location
               /\ \A i \in 1..n :
                      coordinates[i + 1] = heap[points[i]].coordinates

\* C20 witness: the polyline of three stops at three places off the depot.
C20_Witness ==
    /\ MetricsReturned
    /\ Len(points) = 3
    /\ Len(result.plans[1].coordinates) = 5
    /\ Cardinality({result.plans[1].coordinates[i] : i \in 1..5}) = 4


\* Every plan the caller holds after a call that returns plans.
PlansHeld ==
    IF /\ call.op \in {"calculate_route_metrics", "calculate_optimal_route",
                       "optimize_multi_truck_routes",
                       "get_alternative_routes"}
       /\ result.status = "ok"
    THEN {result.plans[i] : i \in 1..Len(result.plans)}
    ELSE {}

\* C21: a returned plan for n >= 1 stops has service_time n * 8 minutes and
\* estimated_time equal to its travel_time plus its service_time.
C21_TimesAddUp ==
    \A plan \in PlansHeld :
        plan.stops # <<>>
            => /\ plan.service_time = Len(plan.stops) * DefaultServiceTime
               /\ plan.estimated_time = plan.travel_time + plan.service_time

\* C21 witness: the metrics of three stops with a travel time of its own.
C21_Witness ==
    /\ MetricsReturned
    /\ Len(points) = 3
    /\ result.plans[1].service_time = 24
    /\ result.plans[1].travel_time > 0
    /\ result.plans[1].estimated_time > 24

OptimalReturned ==
    /\ call.op = "calculate_optimal_route"
    /\ points # <<>>
    /\ result.status = "ok"

\* C22: in the plan returned by calculate_optimal_route for n >= 1 points
\* the stop at position k carries sequence k and the service duration of 8
\* minutes, so the sequence numbers are 1..n, and number_of_stops is n.
C22_SequenceNumbers ==
    OptimalReturned
        => LET plan == result.plans[1]
           IN  /\ plan.number_of_stops = Len(points)
               /\ Len(plan.stops) = Len(points)
               /\ \A k \in 1..Len(plan.stops) :
                      /\ {"sequence", "estimated_time"}
                             \subseteq heap[plan.stops[k]].keys
                      /\ heap[plan.stops[k]].sequence = k
                      /\ heap[plan.stops[k]].estimated_time
                             = DefaultServiceTime

\* The arrival offset written on the stop at position k of the plan, a
\* fraction of minutes.
ArrivalOffset(plan, k) == heap[plan.stops[k]].arrival_time

\* The fraction a is less than the fraction b (denominators positive).
FractionLess(a, b) == a.num * b.den < b.num * a.den

\* C23: in the plan returned by calculate_optimal_route for n stops, the
\* arrival offset of the stop at position k is (k - 1) * 8 minutes plus the
\* share (k - 1) / n of the plan's travel_time; the first offset is 0 and
\* the offsets grow strictly along the route.
C23_ArrivalOffsets ==
    OptimalReturned
        => LET plan == result.plans[1]
               n    == Len(plan.stops)
           IN  /\ \A k \in 1..n :
                      /\ "arrival_time" \in heap[plan.stops[k]].keys
                      /\ ArrivalOffset(plan, k).num * n
                             = ((k - 1) * DefaultServiceTime * n
                                    + (k - 1) * plan.travel_time)
                                 * ArrivalOffset(plan, k).den
               /\ ArrivalOffset(plan, 1).num = 0
               /\ \A k \in 1..(n - 1) :
                      FractionLess(ArrivalOffset(plan, k),
                                   ArrivalOffset(plan, k + 1))

\* (baseline - d) / baseline * 100 for baseline = d * factor, which is
\* (factor - 1) / factor * 100 whatever d > 0 is; in tenths of a percent,
\* at the one decimal the plan holds.
SavingsOfFactor(factor) == RoundHalfEven((factor - 100) * 1000, factor)

\* C24: the fuel_savings of a returned plan with a positive total distance
\* is (baseline - total_distance) / baseline * 100 for a baseline of
\* total_distance * factor with factor in [1.2, 1.3]: a value that depends
\* on the factor alone and lies between 16.6 and 23.1, strictly between 0
\* and 100.
C24_FuelSavingsOfFactor ==
    \A plan \in PlansHeld :
        plan.total_distance > 0
            => /\ \E factor \in Factors :
                      plan.fuel_savings = SavingsOfFactor(factor)
               /\ plan.fuel_savings >= 166
               /\ plan.fuel_savings <= 231
               /\ plan.fuel_savings > 0
               /\ plan.fuel_savings < 1000

\* C24 witness: a fleet call returned two plans of different routes, one
\* with the savings of factor 1.2 and one with the savings of factor 1.3.
C24_Witness ==
    /\ IsFleetCall
    /\ result.status = "ok"
    /\ Len(result.plans) = 2
    /\ result.plans[1].total_distance # result.plans[2].total_distance
    /\ result.plans[1].fuel_savings = SavingsOfFactor(FactorLo)
    /\ result.plans[2].fuel_savings = SavingsOfFactor(FactorHi)
    /\ result.plans[1].fuel_savings < result.plans[2].fuel_savings

\* A fleet call with more trucks than points returned.
MoreTrucksThanPoints ==
    /\ IsFleetCall
    /\ points # <<>>
    /\ call.num_trucks > Len(points)
    /\ result.status = "ok"

NoTiesAlong(list, route) ==
    \A k \in 1..Len(route) :
        LET pool == UnvisitedAt(list, route, k)
        IN  \A i \in 1..Len(pool) : \A j \in 1..Len(pool) :
                i # j => DistanceAt(route, k, pool[i])
                            # DistanceAt(route, k, pool[j])

\* The route of the single-route operation for the caller's list.
PrimaryRoute == nearest_neighbor_algorithm(heap, points)

\* C26: when no two candidates ever tie, nearest_neighbor_algorithm gives
\* every arrangement of the same points the same route, and every plan of
\* get_alternative_routes has the stop order of the primary route.
C26_OrderIndependentWithoutTies ==
    /\ (IsSequencerCall /\ NoTiesAlong(points, result.route))
           => \A shuffled_bins \in Shuffles(points) :
                  nearest_neighbor_algorithm(heap, shuffled_bins)
                      = result.route
    /\ (/\ call.op = "get_alternative_routes"
        /\ result.status = "ok"
        /\ NoTiesAlong(points, PrimaryRoute))
           => \A i \in 1..Len(result.plans) :
                  result.plans[i].stops = PrimaryRoute

\* C26 witness: two alternatives for three points without ties, given in
\* another order than the primary route visits them.
C26_Witness ==
    /\ call.op = "get_alternative_routes"
    /\ Len(result.plans) = NumAlternatives
    /\ Len(points) = 3
    /\ NoTiesAlong(points, PrimaryRoute)
    /\ PrimaryRoute # points
    /\ \A i \in 1..Len(result.plans) : result.plans[i].stops = PrimaryRoute

\* C27: no call changes the caller's list: after nearest_neighbor_algorithm,
\* get_alternative_routes and optimize_multi_truck_routes (and every other
\* operation) it has the same length and the same points in the same order.
C27_InputListUnchanged == [][points' = points]_vars

\* C27 witness: a fleet call returned two plans whose stops, taken together,
\* stand in another order than the three points of the caller's list.
C27_Witness ==
    /\ IsFleetCall
    /\ result.status = "ok"
    /\ Len(result.plans) = 2
    /\ Len(points) = 3
    /\ Cardinality(Used(points)) = 3
    /\ AllStops(result.plans, 1) # points

\* C28: after any sequence of process_waste_disposal calls, for every user
\* and every weekly challenge the recorded progress lies between 0 and the
\* challenge's target, a record whose progress has reached the target is
\* marked completed, and no step removes a record or lowers its progress.
ProgressWithinTarget ==
    \A key \in DOMAIN user_challenge_progress :
        LET row    == user_challenge_progress[key]
            target == weekly_challenges[key[2]].target
        IN  /\ 0 <= row.progress
            /\ row.progress <= target
            /\ row.progress >= target => row.completed

ProgressNeverDecreases ==
    \A key \in DOMAIN user_challenge_progress :
        /\ key \in DOMAIN user_challenge_progress'
        /\ user_challenge_progress'[key].progress
               >= user_challenge_progress[key].progress

C28_ChallengeProgress ==
    []ProgressWithinTarget /\ [][ProgressNeverDecreases]_vars

\* C28 witness: a user has made more disposals in the week than the target
\* of a challenge that counts each of them; the record stands at the target
\* and is completed, while another record of the user is still under way.
C28_Witness ==
    \E key \in DOMAIN user_challenge_progress :
        /\ user_challenge_progress[key].progress
               = weekly_challenges[key[2]].target
        /\ user_challenge_progress[key].completed
        /\ weekly_challenges[key[2]].challenge_type = "variety"
        /\ DisposalCount(Current, key[1], BinTypes)
               > weekly_challenges[key[2]].target
        /\ \E other \in DOMAIN user_challenge_progress :
               /\ other[1] = key[1]
               /\ ~user_challenge_progress[other].completed
               /\ user_challenge_progress[other].progress
                      = DisposalCount(Current, key[1], BinTypes)

\* The number of rows of a table that lie in a set of rows.
RowsIn(table, rows) ==
    BagCardinality([row \in BagToSet(table) \cap rows |-> table[row]])

AchievementActivities(user_id, achievement_id) ==
    {row \in BagToSet(user_activities) :
        /\ row.user_id = user_id
        /\ row.activity_type = "achievement"
        /\ row.item = achievement_id}

AchievementNotifications(user_id, achievement_id) ==
    {row \in BagToSet(notifications) :
        /\ row.user_id = user_id
        /\ row.notification_type = "achievement"
        /\ row.item = achievement_id}

\* C29: after any sequence of process_waste_disposal calls there is, for
\* every user and achievement, at most one user_achievements row, at most
\* one 'achievement' activity and at most one achievement notification, and
\* no step removes a user_achievements row.
AwardedAtMostOnce ==
    \A user_id \in UserIds, achievement_id \in 1..Len(achievements) :
        /\ CopiesIn([user_id |-> user_id, achievement_id |-> achievement_id],
                    user_achievements) <= 1
        /\ RowsIn(user_activities,
                  AchievementActivities(user_id, achievement_id)) <= 1
        /\ RowsIn(notifications,
                  AchievementNotifications(user_id, achievement_id)) <= 1

AwardsKept ==
    \A row \in BagToSet(user_achievements) : BagIn(row, user_achievements')

C29_AwardedOnce ==
    []AwardedAtMostOnce /\ [][AwardsKept]_vars

\* C29 witness: a user who holds two achievements, each with its activity,
\* has made a further disposal since, and another user holds one.
C29_Witness ==
    \E user_id \in UserIds, other \in UserIds :
        /\ other # user_id
        /\ DisposalCount(Current, user_id, BinTypes) >= 2
        /\ {a \in 1..Len(achievements) :
               /\ BagIn([user_id |-> user_id, achievement_id |-> a],
                        user_achievements)
               /\ RowsIn(user_activities,
                         AchievementActivities(user_id, a)) = 1} = {1, 8}
        /\ BagIn([user_id |-> other, achievement_id |-> 1], user_achievements)

\* C30: redeem_reward returns True only when the reward exists, is
\* available and the user's points are at least its cost, and then records
\* the redemption; in every other case it returns False and leaves
\* user_rewards, user_activities, notifications and the users' points as
\* they were.
Redeemable(user_id, reward_id) ==
    /\ reward_id \in DOMAIN rewards
    /\ rewards[reward_id].available
    /\ user_id \in DOMAIN users
    /\ users[user_id].points >= rewards[reward_id].cost

RedemptionRecorded(user_id, reward_id) ==
    /\ user_rewards' = user_rewards
           (+) SetToBag({[user_id |-> user_id, reward_id |-> reward_id]})
    /\ BagCardinality(user_activities') = BagCardinality(user_activities) + 1
    /\ BagCardinality(notifications') = BagCardinality(notifications) + 1

C30_RedeemOnlyWhenPayable ==
    [][\A user_id \in UserIds, reward_id \in RewardIds :
          RedeemRewardCall(user_id, reward_id) =>
              IF Redeemable(user_id, reward_id)
              THEN /\ result'.value = TRUE
                   /\ RedemptionRecorded(user_id, reward_id)
              ELSE /\ result'.value = FALSE
                   /\ UNCHANGED <<user_rewards, user_activities,
                                  notifications, users>>]_vars

\* C30 witness: with disposals and a redemption on record, the last call of
\* redeem_reward returned False.
C30_Witness ==
    /\ call.op = "redeem_reward"
    /\ result.value = FALSE
    /\ BagCardinality(user_rewards) = 1
    /\ Disposals > 0

====
